---- MODULE Spec2Model ----
(***************************************************************************)
(* A model of container-retention-policy's main.py: input validation,      *)
(* image-name parsing, and the two-level asyncio fan-out that lists the    *)
(* versions of every image and deletes the stale ones through one shared   *)
(* HTTP client.                                                            *)
(*                                                                         *)
(* The asyncio event loop is modelled by its FIFO ready queue: a task step *)
(* or a future's done-callback runs only when it is at the head of `ready`.*)
(* A step of a coroutine is everything it does between two suspension      *)
(* points, and is one action.  Network responses arrive at any time.       *)
(***************************************************************************)
EXTENDS Integers, Sequences, FiniteSets, TLC

VARIABLES
    args,       \* the raw parameters of main (argv[1:])
    mainPc,     \* where main is: "start", "gather", "closing", "done"
    mainExc,    \* the exception main has raised or is about to raise, or NoExc
    inputs,     \* the Inputs instance of validate_inputs, or Nothing
    names,      \* parsed_image_names
    client,     \* the AsyncClient: "unopened", "open", "closed"
    nClosed,    \* how many times the client has been closed
    img,        \* the image tasks, one per parsed image name
    del,        \* del[i]: the deletion tasks of image task i (the list `tasks`)
    inner,      \* inner[i]: the future of image task i's gather
    outer,      \* the future of main's gather
    ready,      \* the event loop's queue of ready callbacks
    out,        \* what has been printed
    loop        \* the event loop of asyncio.run: "running", "closed"

vars == <<args, mainPc, mainExc, inputs, names, client, nClosed, img, del,
          inner, outer, ready, out, loop>>

----------------------------------------------------------------------------
(* Bounds of the model.                                                    *)

\* The longest listing the registry answers with.
MaxVersions == 2

\* The largest number of comma-separated segments of image_names.
MaxImages == 2

\* The longest image_names whose parsing is checked character by character.
MaxNameLen == 4

----------------------------------------------------------------------------
(* Values.                                                                 *)

\* Python's None, where a string is expected.
None == "None"

\* No exception.
NoExc == "NoExc"

\* Python's None, where an object is expected.
Nothing == [kind |-> "None"]

\* dateparser.parse, as a table over the strings the model uses: the wall
\* clock reading (in seconds from 2024-01-01T00:00:00) and the UTC offset in
\* seconds of the result, a naive datetime when the string names no
\* timezone, or Nothing when the string cannot be parsed.
parse(s) ==
    CASE s = "2023-06-01T00:00:00+00:00" ->
            [kind |-> "aware", wall |-> -18489600, tz |-> 0]
      [] s = "2023-12-31T23:59:59+00:00" ->
            [kind |-> "aware", wall |-> -1, tz |-> 0]
      [] s = "2024-01-01T00:00:00+00:00" ->
            [kind |-> "aware", wall |-> 0, tz |-> 0]
      [] s = "2024-01-01T02:00:00+02:00" ->
            [kind |-> "aware", wall |-> 7200, tz |-> 7200]
      [] s = "2024-06-01T00:00:00+00:00" ->
            [kind |-> "aware", wall |-> 13132800, tz |-> 0]
      [] s = "2024-01-01T00:00:00" ->
            [kind |-> "naive", wall |-> 0]
      [] OTHER -> Nothing

\* datetime.__lt__ of two aware datetimes: they compare as instants, the
\* wall clock reading less the offset.
Before(a, b) == (a.wall - a.tz) < (b.wall - b.tz)

\* TimestampType and AccountType: the values of the two Enums.
TimestampType == {"updated_at", "created_at"}
AccountType == {"org", "personal"}

\* Inputs.is_org
is_org(inp) == inp.account_type = "org"

\* Inputs.list_package_versions: the request the bound capability sends for
\* an image.
list_package_versions(inp, image_name) ==
    IF is_org(inp)
    THEN [op |-> "list", scope |-> "org", org |-> inp.org_name,
          image |-> image_name.encoded, id |-> 0]
    ELSE [op |-> "list", scope |-> "user", org |-> None,
          image |-> image_name.encoded, id |-> 0]

\* A delete_package that is delete_package_versions whatever the account
\* type.
delete_package_personal(inp, image_name, version_id) ==
    [op |-> "delete", scope |-> "user", org |-> None,
     image |-> image_name.encoded, id |-> version_id]

\* Inputs.delete_package: the request the bound capability sends for a
\* version of an image.
delete_package(inp, image_name, version_id) ==
    IF is_org(inp)
    THEN [op |-> "delete", scope |-> "org", org |-> inp.org_name,
          image |-> image_name.encoded, id |-> version_id]
    ELSE [op |-> "delete", scope |-> "user", org |-> None,
          image |-> image_name.encoded, id |-> version_id]

----------------------------------------------------------------------------
(* validate_inputs: its result is [exc |-> the error raised or NoExc,      *)
(* inputs |-> the Inputs instance or Nothing].                                *)

Raise(e) == [exc |-> e, inputs |-> Nothing]

\* A validation that keeps the organization name whatever the account type.
validate_inputs_keeps_org(account_type, org_name, timestamp_type, cut_off) ==
    LET parsed_cutoff == parse(cut_off) IN
    IF parsed_cutoff.kind = "None" THEN Raise("UnableToParse")
    ELSE IF parsed_cutoff.kind = "naive" THEN Raise("TimezoneRequired")
    ELSE IF account_type = "org" /\ org_name = "" THEN Raise("OrgNameRequired")
    ELSE IF timestamp_type \notin TimestampType THEN Raise("InvalidTimestampType")
    ELSE IF account_type \notin AccountType THEN Raise("InvalidAccountType")
    ELSE [exc |-> NoExc,
          inputs |-> [kind |-> "Inputs",
                      parsed_cutoff |-> parsed_cutoff,
                      timestamp_type |-> timestamp_type,
                      account_type |-> account_type,
                      org_name |-> org_name]]

\* A validation that looks for the organization name before it looks at the
\* cutoff.
validate_inputs_org_first(account_type, org_name, timestamp_type, cut_off) ==
    LET parsed_cutoff == parse(cut_off) IN
    IF account_type = "org" /\ org_name = "" THEN Raise("OrgNameRequired")
    ELSE IF parsed_cutoff.kind = "None" THEN Raise("UnableToParse")
    ELSE IF parsed_cutoff.kind = "naive" THEN Raise("TimezoneRequired")
    ELSE IF timestamp_type \notin TimestampType THEN Raise("InvalidTimestampType")
    ELSE IF account_type \notin AccountType THEN Raise("InvalidAccountType")
    ELSE [exc |-> NoExc,
          inputs |-> [kind |-> "Inputs",
                      parsed_cutoff |-> parsed_cutoff,
                      timestamp_type |-> timestamp_type,
                      account_type |-> account_type,
                      org_name |-> IF account_type = "org" THEN org_name ELSE None]]

\* A validation that builds AccountType before TimestampType.
validate_inputs_account_first(account_type, org_name, timestamp_type, cut_off) ==
    LET parsed_cutoff == parse(cut_off) IN
    IF parsed_cutoff.kind = "None" THEN Raise("UnableToParse")
    ELSE IF parsed_cutoff.kind = "naive" THEN Raise("TimezoneRequired")
    ELSE IF account_type = "org" /\ org_name = "" THEN Raise("OrgNameRequired")
    ELSE IF account_type \notin AccountType THEN Raise("InvalidAccountType")
    ELSE IF timestamp_type \notin TimestampType THEN Raise("InvalidTimestampType")
    ELSE [exc |-> NoExc,
          inputs |-> [kind |-> "Inputs",
                      parsed_cutoff |-> parsed_cutoff,
                      timestamp_type |-> timestamp_type,
                      account_type |-> account_type,
                      org_name |-> IF account_type = "org" THEN org_name ELSE None]]

validate_inputs(account_type, org_name, timestamp_type, cut_off) ==
    LET parsed_cutoff == parse(cut_off) IN
    IF parsed_cutoff.kind = "None" THEN Raise("UnableToParse")
    ELSE IF parsed_cutoff.kind = "naive" THEN Raise("TimezoneRequired")
    ELSE IF account_type = "org" /\ org_name = "" THEN Raise("OrgNameRequired")
    ELSE IF timestamp_type \notin TimestampType THEN Raise("InvalidTimestampType")
    ELSE IF account_type \notin AccountType THEN Raise("InvalidAccountType")
    ELSE [exc |-> NoExc,
          inputs |-> [kind |-> "Inputs",
                      parsed_cutoff |-> parsed_cutoff,
                      timestamp_type |-> timestamp_type,
                      account_type |-> account_type,
                      org_name |-> IF account_type = "org" THEN org_name ELSE None]]

----------------------------------------------------------------------------
(* parse_image_names.  A string is a sequence of one-character strings.    *)

\* str.split(','): the segments between the commas, at least one.
RECURSIVE split(_)
split(s) ==
    IF \A p \in 1..Len(s) : s[p] # ","
    THEN <<s>>
    ELSE LET p == CHOOSE q \in 1..Len(s) :
                     s[q] = "," /\ \A r \in 1..(q - 1) : s[r] # ","
         IN <<SubSeq(s, 1, p - 1)>> \o split(SubSeq(s, p + 1, Len(s)))

\* str.strip(): without its leading and trailing whitespace.
RECURSIVE strip(_)
strip(s) ==
    IF s = <<>> THEN s
    ELSE IF Head(s) = " " THEN strip(Tail(s))
    ELSE IF s[Len(s)] = " " THEN strip(SubSeq(s, 1, Len(s) - 1))
    ELSE s

\* str.encode('utf-8'), one character at a time: the bytes of a character,
\* one for an ASCII character and two for the character U+00E9.
encode_char(c) ==
    CASE c = "a" -> <<97>>
      [] c = "b" -> <<98>>
      [] c = "c" -> <<99>>
      [] c = " " -> <<32>>
      [] c = "%" -> <<37>>
      [] c = "," -> <<44>>
      [] c = "/" -> <<47>>
      [] c = "U+00E9" -> <<195, 169>>

RECURSIVE encode(_)
encode(s) ==
    IF s = <<>> THEN <<>> ELSE encode_char(Head(s)) \o encode(Tail(s))

\* The bytes quote_from_bytes never quotes: the ASCII letters and digits
\* and "_.-~" (of which the model has the letters a, b and c).
always_safe == {97, 98, 99}

\* chr() of a byte that is not quoted.
chr(byte) ==
    CASE byte = 97 -> "a"
      [] byte = 98 -> "b"
      [] byte = 99 -> "c"
      [] byte = 47 -> "/"

\* One digit of '%{:02X}'.format(byte).
hex_digit(d) ==
    <<"0", "1", "2", "3", "4", "5", "6", "7", "8", "9",
      "A", "B", "C", "D", "E", "F">>[d + 1]

\* quote_from_bytes(..., safe=''), one byte at a time: a byte that is always
\* safe or in `safe` is kept as its character, every other byte becomes %XX.
quote_char(byte, safe) ==
    IF byte \in always_safe \cup safe
    THEN <<chr(byte)>>
    ELSE <<"%", hex_digit(byte \div 16), hex_digit(byte % 16)>>

\* A quote_from_bytes with its default safe='/'.
RECURSIVE quote_from_bytes_default_safe(_)
quote_from_bytes_default_safe(bs) ==
    IF bs = <<>> THEN <<>>
    ELSE quote_char(Head(bs), {47}) \o quote_from_bytes_default_safe(Tail(bs))

RECURSIVE quote_from_bytes(_)
quote_from_bytes(bs) ==
    IF bs = <<>> THEN <<>>
    ELSE quote_char(Head(bs), {}) \o quote_from_bytes(Tail(bs))

ImageName(value, encoded) == [value |-> value, encoded |-> encoded]

parse_image_names(image_names) ==
    LET segs == split(image_names) IN
    [p \in 1..Len(segs) |->
        ImageName(strip(segs[p]), quote_from_bytes(encode(strip(segs[p]))))]

----------------------------------------------------------------------------
(* The inputs the model draws from.                                        *)

AccountTypeInputs == {"org", "personal", "team"}
OrgNameInputs == {"", "acme"}
TimestampTypeInputs == {"updated_at", "created_at", "pushed_at"}
CutOffInputs ==
    {"soonish", "2024-01-01T00:00:00", "2024-01-01T00:00:00+00:00"}

\* The segments joined by commas.
RECURSIVE join(_)
join(segs) ==
    IF Len(segs) = 1 THEN segs[1] ELSE segs[1] \o <<",">> \o join(Tail(segs))

\* The image names a segment of image_names may hold, with its whitespace.
SegmentInputs == { <<"a">>, <<" ", "b", "/", "c">> }

\* image_names of up to MaxImages segments: a first name alone or followed
\* by other names.
ImageNamesInputs ==
    { join(segs) : segs \in
        { f \in UNION { [1..n -> SegmentInputs] : n \in 1..MaxImages } :
            f[1] = <<"a">> /\ \A p \in 2..Len(f) : f[p] # <<"a">> } }

\* The parameters of the invocations whose tasks the model runs: every
\* image_names, under an org and under a personal configuration.
RunInputs ==
    { [account_type |-> c[1], org_name |-> "acme", image_names |-> x,
       timestamp_type |-> c[2], cut_off |-> "2024-01-01T00:00:00+00:00"] :
        c \in {<<"org", "updated_at">>, <<"personal", "created_at">>},
        x \in ImageNamesInputs }

\* The parameters of the invocations of one image: every combination of
\* the other parameters.
OneImageInputs ==
    [account_type : AccountTypeInputs, org_name : OrgNameInputs,
     image_names : { <<" ", "b", "/", "c">> },
     timestamp_type : TimestampTypeInputs, cut_off : CutOffInputs]

\* The characters of image_names: a letter, whitespace, the separator, a
\* character of a path, the escape character, and one outside ASCII.
Characters == {"a", " ", ",", "/", "%", "U+00E9"}

\* Every image_names of up to MaxNameLen characters.
ImageNamesStrings == UNION { [1..n -> Characters] : n \in 0..MaxNameLen }

\* The parameters of the invocations that parse image_names: every string,
\* with a cutoff that ends main right after the names are parsed, and the
\* invocations of RunInputs for one image, which run to their end.
ParseInputs ==
    { [account_type |-> "personal", org_name |-> "", image_names |-> x,
       timestamp_type |-> "updated_at", cut_off |-> "soonish"] :
        x \in ImageNamesStrings }
    \cup { r \in RunInputs : Len(split(r.image_names)) = 1 }

\* The parameters of the invocations of MaxImages images that are the same
\* image or all but the last are: the name "a" repeated, with whitespace
\* around the later ones, and the same with " b/c" for the last.
RepeatedInputs ==
    { [account_type |-> "org", org_name |-> "acme", image_names |-> x,
       timestamp_type |-> "updated_at",
       cut_off |-> "2024-01-01T00:00:00+00:00"] :
        x \in { join([p \in 1..MaxImages |->
                        IF p = 1 THEN <<"a">>
                        ELSE IF p < MaxImages THEN <<" ", "a">> ELSE last]) :
                 last \in { <<" ", "a", " ">>, <<" ", "b", "/", "c">> } } }

\* The version records the registry answers with: an id and the two
\* timestamps, as the strings of the JSON response.
VersionRecords ==
    { [id |-> 1, updated_at |-> "2023-06-01T00:00:00+00:00",
                 created_at |-> "2023-06-01T00:00:00+00:00"],
      [id |-> 2, updated_at |-> "2024-06-01T00:00:00+00:00",
                 created_at |-> "n/a"],
      [id |-> 3, updated_at |-> "2023-12-31T23:59:59+00:00",
                 created_at |-> "2024-01-01T00:00:00+00:00"],
      [id |-> 4, updated_at |-> "2024-01-01T02:00:00+02:00",
                 created_at |-> "2024-06-01T00:00:00+00:00"] }

\* The listings: what response.json() returns for a list request, up to
\* MaxVersions versions, each with an id of its own.
Listings ==
    { l \in UNION { [1..n -> VersionRecords] : n \in 0..MaxVersions } :
        \A p, q \in 1..Len(l) : p # q => l[p].id # l[q].id }

----------------------------------------------------------------------------
(* Tasks, futures and the ready queue.                                     *)

NoReq == [op |-> "none", scope |-> None, org |-> None, image |-> <<>>, id |-> 0]

\* asyncio.create_task(get_and_delete_old_versions(...)): a task that has
\* not run yet.  pc is the await the task has reached ("created": none
\* yet), res how the task has ended ("none": it has not), req the request
\* it has sent, nreq how many requests it has sent, and resp the response
\* to the request.
NewImageTask ==
    [pc |-> "created", res |-> "none", req |-> NoReq, nreq |-> 0,
     resp |-> "none", versions |-> <<>>]

\* asyncio.create_task(inputs.delete_package(...)) for a version id.
NewDeleteTask(version_id) ==
    [id |-> version_id, pc |-> "created", res |-> "none", req |-> NoReq,
     nreq |-> 0, resp |-> "none"]

\* The future asyncio.gather returns: pending until it gets a result or an
\* exception; nfinished counts the done-callbacks that have run.
NoFuture == [state |-> "none", nfinished |-> 0]
PendingFuture == [state |-> "pending", nfinished |-> 0]

\* An entry of the ready queue: a step of a task, or the done-callback that
\* gather has put on a finished task.
Entry(kind, i, k) == [kind |-> kind, i |-> i, k |-> k]

AtHead(kind) == ready # <<>> /\ Head(ready).kind = kind

----------------------------------------------------------------------------
(* get_and_delete_old_versions: the loop over the listing.                 *)

\* version[inputs.timestamp_type.value]
timestamp_of(version, inp) == version[inp.timestamp_type]

\* Whether the loop skips the version: its timestamp does not parse.
is_skipped(version, inp) == parse(timestamp_of(version, inp)).kind = "None"

\* Whether the loop creates a deletion task for the version.  (The registry
\* sends every timestamp with its offset, so no parsed timestamp is naive.)
is_old(version, inp) ==
    /\ ~is_skipped(version, inp)
    /\ Before(parse(timestamp_of(version, inp)), inp.parsed_cutoff)

\* A loop that stops at the first version it cannot parse, where the loop
\* of the code goes on to the next version.
RECURSIVE make_tasks_break(_, _)
make_tasks_break(versions, inp) ==
    IF versions = <<>> THEN <<>>
    ELSE IF is_skipped(Head(versions), inp) THEN <<>>
    ELSE IF is_old(Head(versions), inp)
         THEN <<NewDeleteTask(Head(versions).id)>> \o make_tasks_break(Tail(versions), inp)
         ELSE make_tasks_break(Tail(versions), inp)

\* A loop that stops once it has created a deletion task.
RECURSIVE make_tasks_first(_, _)
make_tasks_first(versions, inp) ==
    IF versions = <<>> THEN <<>>
    ELSE IF is_old(Head(versions), inp)
         THEN <<NewDeleteTask(Head(versions).id)>>
         ELSE make_tasks_first(Tail(versions), inp)

\* A loop that creates two deletion tasks for an old version.
RECURSIVE make_tasks_twice(_, _)
make_tasks_twice(versions, inp) ==
    IF versions = <<>> THEN <<>>
    ELSE IF is_old(Head(versions), inp)
         THEN <<NewDeleteTask(Head(versions).id), NewDeleteTask(Head(versions).id)>>
              \o make_tasks_twice(Tail(versions), inp)
         ELSE make_tasks_twice(Tail(versions), inp)

\* The list `tasks` after the loop: one deletion task per old version, in
\* the order of the listing.
RECURSIVE make_tasks(_, _)
make_tasks(versions, inp) ==
    IF versions = <<>> THEN <<>>
    ELSE IF is_old(Head(versions), inp)
         THEN <<NewDeleteTask(Head(versions).id)>> \o make_tasks(Tail(versions), inp)
         ELSE make_tasks(Tail(versions), inp)

\* What the loop prints: one line per skipped version.
skip_lines(i, versions, inp) ==
    { [msg |-> "Skipping image version", i |-> i, id |-> versions[p].id] :
        p \in { q \in 1..Len(versions) : is_skipped(versions[q], inp) } }

\* A diagnostic that is printed whatever the list `tasks` holds.
no_more_lines_always(i, tasks) ==
    {[msg |-> "No more versions to delete", i |-> i, id |-> 0]}

\* What is printed after the loop: a line when `tasks` is empty.
no_more_lines(i, tasks) ==
    IF tasks = <<>>
    THEN {[msg |-> "No more versions to delete", i |-> i, id |-> 0]}
    ELSE {}

----------------------------------------------------------------------------
(* The initial state: main has been called with its parameters.            *)

InitWith(inputs_of_main) ==
    /\ args \in inputs_of_main
    /\ mainPc = "start"
    /\ mainExc = NoExc
    /\ inputs = Nothing
    /\ names = <<>>
    /\ client = "unopened"
    /\ nClosed = 0
    /\ img = <<>>
    /\ del = <<>>
    /\ inner = <<>>
    /\ outer = NoFuture
    /\ ready = <<>>
    /\ out = {}
    /\ loop = "running"

----------------------------------------------------------------------------
(* main                                                                    *)

\* A main that opens the client and creates its tasks before it validates
\* its parameters.
MainStartUnvalidated ==
    /\ mainPc = "start"
    /\ LET parsed_image_names == parse_image_names(args.image_names)
           v == validate_inputs(args.account_type, args.org_name,
                                args.timestamp_type, args.cut_off)
           n == Len(parsed_image_names)
       IN /\ names' = parsed_image_names
          /\ client' = "open"
          /\ img' = [i \in 1..n |-> NewImageTask]
          /\ del' = [i \in 1..n |-> <<>>]
          /\ inner' = [i \in 1..n |-> NoFuture]
          /\ IF v.exc # NoExc
             THEN /\ mainExc' = v.exc
                  /\ mainPc' = "done"
                  /\ UNCHANGED <<inputs, outer, ready>>
             ELSE /\ inputs' = v.inputs
                  /\ outer' = PendingFuture
                  /\ ready' = [i \in 1..n |-> Entry("image", i, 0)]
                  /\ mainPc' = "gather"
                  /\ UNCHANGED mainExc
    /\ UNCHANGED <<args, nClosed, out, loop>>

\* A main that creates its tasks and schedules the first of them only.
MainStartFirstOnly ==
    /\ mainPc = "start"
    /\ LET parsed_image_names == parse_image_names(args.image_names)
           v == validate_inputs(args.account_type, args.org_name,
                                args.timestamp_type, args.cut_off)
           n == Len(parsed_image_names)
       IN /\ names' = parsed_image_names
          /\ IF v.exc # NoExc
             THEN /\ mainExc' = v.exc
                  /\ mainPc' = "done"
                  /\ UNCHANGED <<inputs, client, img, del, inner, outer, ready>>
             ELSE /\ inputs' = v.inputs
                  /\ client' = "open"
                  /\ img' = [i \in 1..n |-> NewImageTask]
                  /\ del' = [i \in 1..n |-> <<>>]
                  /\ inner' = [i \in 1..n |-> NoFuture]
                  /\ outer' = PendingFuture
                  /\ ready' = <<Entry("image", 1, 0)>>
                  /\ mainPc' = "gather"
                  /\ UNCHANGED mainExc
    /\ UNCHANGED <<args, nClosed, out, loop>>

\* main up to its await: the names are parsed, the inputs validated, the
\* client opened, one task created per image name, and main waits for the
\* gather of them.  A validation error ends main before the client exists.
MainStart ==
    /\ mainPc = "start"
    /\ LET parsed_image_names == parse_image_names(args.image_names)
           v == validate_inputs(args.account_type, args.org_name,
                                args.timestamp_type, args.cut_off)
           n == Len(parsed_image_names)
       IN /\ names' = parsed_image_names
          /\ IF v.exc # NoExc
             THEN /\ mainExc' = v.exc
                  /\ mainPc' = "done"
                  /\ UNCHANGED <<inputs, client, img, del, inner, outer, ready>>
             ELSE /\ inputs' = v.inputs
                  /\ client' = "open"
                  /\ img' = [i \in 1..n |-> NewImageTask]
                  /\ del' = [i \in 1..n |-> <<>>]
                  /\ inner' = [i \in 1..n |-> NoFuture]
                  /\ outer' = PendingFuture
                  /\ ready' = [i \in 1..n |-> Entry("image", i, 0)]
                  /\ mainPc' = "gather"
                  /\ UNCHANGED mainExc
    /\ UNCHANGED <<args, nClosed, out, loop>>

\* main wakes up from its gather, with the result or the exception of the
\* gather, and leaves the `async with`: the client is closed.
MainWake ==
    /\ AtHead("main")
    /\ mainPc = "gather"
    /\ ready' = Tail(ready)
    /\ mainExc' = IF outer.state = "exception" THEN "RequestFailed" ELSE NoExc
    /\ client' = "closed"
    /\ nClosed' = nClosed + 1
    /\ mainPc' = "closing"
    /\ UNCHANGED <<args, inputs, names, img, del, inner, outer, out, loop>>

\* The client's __aexit__ returns (it may have suspended while it closed the
\* connections), and main returns or raises.
MainReturn ==
    /\ mainPc = "closing"
    /\ mainPc' = "done"
    /\ UNCHANGED <<args, mainExc, inputs, names, client, nClosed, img, del,
                   inner, outer, ready, out, loop>>

\* asyncio.run, once main is done: the tasks that are not done are
\* cancelled and the loop is closed.
Cancelled(t) == IF t.res # "none" THEN t ELSE [t EXCEPT !.res = "cancelled"]

RunShutdown ==
    /\ mainPc = "done"
    /\ loop = "running"
    /\ loop' = "closed"
    /\ img' = [i \in DOMAIN img |-> Cancelled(img[i])]
    /\ del' = [i \in DOMAIN del |-> [k \in DOMAIN del[i] |-> Cancelled(del[i][k])]]
    /\ ready' = <<>>
    /\ UNCHANGED <<args, mainPc, mainExc, inputs, names, client, nClosed,
                   inner, outer, out>>

----------------------------------------------------------------------------
(* The image tasks: get_and_delete_old_versions                            *)

\* A raise_for_status that never raises.
raise_for_status_never(resp) == FALSE

\* response.raise_for_status(): whether it raises.
raise_for_status(resp) == resp = "failed"

\* The loop runs callbacks until main is done.
Running == loop = "running" /\ mainPc # "done"

\* A task ends, with a result or an exception.  (The action that ends it
\* puts its done-callback, which is gather's, on the ready queue.)
Finish(t, res) == [t EXCEPT !.res = res]

\* The first step of an image task: it sends the list request and waits
\* for the response.  A closed client refuses the request.
ImageStart(i) ==
    /\ Running
    /\ AtHead("image") /\ Head(ready).i = i
    /\ img[i].pc = "created"
    /\ IF client = "open"
       THEN /\ img' = [img EXCEPT ![i].pc = "listing",
                           ![i].req = list_package_versions(inputs, names[i]),
                           ![i].nreq = @ + 1]
            /\ ready' = Tail(ready)
       ELSE /\ img' = [img EXCEPT ![i] = Finish(@, "exception")]
            /\ ready' = Append(Tail(ready), Entry("outer_cb", i, 0))
    /\ UNCHANGED <<args, mainPc, mainExc, inputs, names, client, nClosed,
                   del, inner, outer, out, loop>>

\* The registry answers a list request: a listing, or a status that
\* raise_for_status turns into an exception.  Once the client is closed
\* its connections are, and the request ends with a transport error
\* instead.  The task becomes ready.
ListResponse(i) ==
    /\ Running
    /\ i \in DOMAIN img
    /\ img[i].pc = "listing" /\ img[i].resp = "none"
    /\ IF client = "open"
       THEN \/ \E versions \in Listings :
                 img' = [img EXCEPT ![i].resp = "ok", ![i].versions = versions]
            \/ img' = [img EXCEPT ![i].resp = "failed"]
       ELSE img' = [img EXCEPT ![i].resp = "aborted"]
    /\ ready' = Append(ready, Entry("image", i, 0))
    /\ UNCHANGED <<args, mainPc, mainExc, inputs, names, client, nClosed,
                   del, inner, outer, out, loop>>

\* The step of an image task after the list request: it raises, or loops
\* over the listing, creates the deletion tasks and waits for their gather.
\* gather of no task is done at once, and the task returns in this step.
ImageListed(i) ==
    /\ Running
    /\ AtHead("image") /\ Head(ready).i = i
    /\ img[i].pc = "listing" /\ img[i].resp # "none"
    /\ IF img[i].resp = "aborted" \/ raise_for_status(img[i].resp)
       THEN /\ img' = [img EXCEPT ![i] = Finish(@, "exception")]
            /\ ready' = Append(Tail(ready), Entry("outer_cb", i, 0))
            /\ UNCHANGED <<del, inner, out>>
       ELSE LET tasks == make_tasks(img[i].versions, inputs)
                skipped == skip_lines(i, img[i].versions, inputs)
            IN IF tasks = <<>>
               THEN /\ out' = out \cup skipped \cup no_more_lines(i, tasks)
                    /\ img' = [img EXCEPT ![i] = Finish([@ EXCEPT !.pc = "gathering"], "ok")]
                    /\ ready' = Append(Tail(ready), Entry("outer_cb", i, 0))
                    /\ UNCHANGED <<del, inner>>
               ELSE /\ out' = out \cup skipped \cup no_more_lines(i, tasks)
                    /\ del' = [del EXCEPT ![i] = tasks]
                    /\ inner' = [inner EXCEPT ![i] = PendingFuture]
                    /\ img' = [img EXCEPT ![i].pc = "gathering"]
                    /\ ready' = Tail(ready) \o
                                [k \in 1..Len(tasks) |-> Entry("delete", i, k)]
    /\ UNCHANGED <<args, mainPc, mainExc, inputs, names, client, nClosed,
                   outer, loop>>

\* The image task wakes up from its gather and returns or raises.
ImageGathered(i) ==
    /\ Running
    /\ AtHead("image") /\ Head(ready).i = i
    /\ img[i].pc = "gathering" /\ img[i].res = "none"
    /\ img' = [img EXCEPT ![i] =
                 Finish(@, IF inner[i].state = "exception" THEN "exception" ELSE "ok")]
    /\ ready' = Append(Tail(ready), Entry("outer_cb", i, 0))
    /\ UNCHANGED <<args, mainPc, mainExc, inputs, names, client, nClosed,
                   del, inner, outer, out, loop>>

----------------------------------------------------------------------------
(* The deletion tasks: delete_org_package_versions, delete_package_versions *)

\* The first step of a deletion task: it sends the delete request and waits
\* for the response.  A closed client refuses the request.
DeleteStart(i, k) ==
    /\ Running
    /\ AtHead("delete") /\ Head(ready).i = i /\ Head(ready).k = k
    /\ del[i][k].pc = "created"
    /\ IF client = "open"
       THEN /\ del' = [del EXCEPT ![i][k].pc = "deleting",
                           ![i][k].req = delete_package(inputs, names[i], del[i][k].id),
                           ![i][k].nreq = @ + 1]
            /\ ready' = Tail(ready)
       ELSE /\ del' = [del EXCEPT ![i][k] = Finish(@, "exception")]
            /\ ready' = Append(Tail(ready), Entry("inner_cb", i, k))
    /\ UNCHANGED <<args, mainPc, mainExc, inputs, names, client, nClosed,
                   img, inner, outer, out, loop>>

\* The registry answers a delete request, or the request ends with a
\* transport error once the client is closed.  The task becomes ready.
DeleteResponse(i, k) ==
    /\ Running
    /\ i \in DOMAIN del /\ k \in DOMAIN del[i]
    /\ del[i][k].pc = "deleting" /\ del[i][k].resp = "none"
    /\ IF client = "open"
       THEN \E status \in {"ok", "failed"} : del' = [del EXCEPT ![i][k].resp = status]
       ELSE del' = [del EXCEPT ![i][k].resp = "aborted"]
    /\ ready' = Append(ready, Entry("delete", i, k))
    /\ UNCHANGED <<args, mainPc, mainExc, inputs, names, client, nClosed,
                   img, inner, outer, out, loop>>

\* A deletion task that sends its request a second time when the first has
\* failed.
DeleteDoneRetry(i, k) ==
    /\ Running
    /\ AtHead("delete") /\ Head(ready).i = i /\ Head(ready).k = k
    /\ del[i][k].pc = "deleting" /\ del[i][k].resp # "none"
    /\ IF raise_for_status(del[i][k].resp) /\ del[i][k].nreq = 1
       THEN /\ del' = [del EXCEPT ![i][k].resp = "none", ![i][k].nreq = @ + 1]
            /\ ready' = Tail(ready)
            /\ UNCHANGED out
       ELSE /\ IF del[i][k].resp = "aborted" \/ raise_for_status(del[i][k].resp)
               THEN /\ del' = [del EXCEPT ![i][k] = Finish(@, "exception")]
                    /\ UNCHANGED out
               ELSE /\ del' = [del EXCEPT ![i][k] = Finish(@, "ok")]
                    /\ out' = out \cup {[msg |-> "Deleted old image", i |-> i, id |-> del[i][k].id]}
            /\ ready' = Append(Tail(ready), Entry("inner_cb", i, k))
    /\ UNCHANGED <<args, mainPc, mainExc, inputs, names, client, nClosed,
                   img, inner, outer, loop>>

\* The step of a deletion task after the delete request: the request or
\* raise_for_status raises, or the deletion is printed and the task returns.
DeleteDone(i, k) ==
    /\ Running
    /\ AtHead("delete") /\ Head(ready).i = i /\ Head(ready).k = k
    /\ del[i][k].pc = "deleting" /\ del[i][k].resp # "none"
    /\ IF del[i][k].resp = "aborted" \/ raise_for_status(del[i][k].resp)
       THEN /\ del' = [del EXCEPT ![i][k] = Finish(@, "exception")]
            /\ UNCHANGED out
       ELSE /\ del' = [del EXCEPT ![i][k] = Finish(@, "ok")]
            /\ out' = out \cup {[msg |-> "Deleted old image", i |-> i, id |-> del[i][k].id]}
    /\ ready' = Append(Tail(ready), Entry("inner_cb", i, k))
    /\ UNCHANGED <<args, mainPc, mainExc, inputs, names, client, nClosed,
                   img, inner, outer, loop>>

----------------------------------------------------------------------------
(* asyncio.gather                                                          *)

\* The done-callback of a gather with return_exceptions=True: an exception
\* is a result like another.
done_callback_return_exceptions(fut, res, n) ==
    IF fut.state = "pending" /\ fut.nfinished + 1 = n
    THEN [state |-> "result", nfinished |-> fut.nfinished + 1]
    ELSE [fut EXCEPT !.nfinished = @ + 1]

\* The done-callback of a wait for the first task to complete: the first
\* task that ends settles the future.
done_callback_first_completed(fut, res, n) ==
    IF fut.state # "pending"
    THEN [fut EXCEPT !.nfinished = @ + 1]
    ELSE [state |-> IF res = "exception" THEN "exception" ELSE "result",
          nfinished |-> fut.nfinished + 1]

\* gather's done-callback for one of its n tasks, which ended with `res`:
\* the future of the gather after it.  The first exception is set on the
\* future at once, whatever the other tasks are doing; a result is set when
\* the last task has finished.
done_callback(fut, res, n) ==
    IF fut.state # "pending"
    THEN [fut EXCEPT !.nfinished = @ + 1]
    ELSE IF res = "exception"
    THEN [state |-> "exception", nfinished |-> fut.nfinished + 1]
    ELSE IF fut.nfinished + 1 = n
    THEN [state |-> "result", nfinished |-> fut.nfinished + 1]
    ELSE [fut EXCEPT !.nfinished = @ + 1]

\* The done-callback of a deletion task runs: when it settles the gather of
\* the image task, the image task becomes ready.
InnerCallback(i, k) ==
    /\ Running
    /\ AtHead("inner_cb") /\ Head(ready).i = i /\ Head(ready).k = k
    /\ inner' = [inner EXCEPT ![i] = done_callback(@, del[i][k].res, Len(del[i]))]
    /\ ready' = IF inner[i].state = "pending" /\ inner'[i].state # "pending"
                THEN Append(Tail(ready), Entry("image", i, 0))
                ELSE Tail(ready)
    /\ UNCHANGED <<args, mainPc, mainExc, inputs, names, client, nClosed,
                   img, del, outer, out, loop>>

\* The done-callback of an image task runs: when it settles the gather of
\* main, main becomes ready.
OuterCallback(i) ==
    /\ Running
    /\ AtHead("outer_cb") /\ Head(ready).i = i
    /\ outer' = done_callback(outer, img[i].res, Len(img))
    /\ ready' = IF outer.state = "pending" /\ outer'.state # "pending"
                THEN Append(Tail(ready), Entry("main", 0, 0))
                ELSE Tail(ready)
    /\ UNCHANGED <<args, mainPc, mainExc, inputs, names, client, nClosed,
                   img, del, inner, out, loop>>

----------------------------------------------------------------------------

Next ==
    \/ MainStart
    \/ MainWake
    \/ MainReturn
    \/ RunShutdown
    \/ \E i \in 1..MaxImages :
          \/ ImageStart(i)
          \/ ListResponse(i)
          \/ ImageListed(i)
          \/ ImageGathered(i)
          \/ OuterCallback(i)
          \/ \E k \in 1..MaxVersions :
                \/ DeleteStart(i, k)
                \/ DeleteResponse(i, k)
                \/ DeleteDone(i, k)
                \/ InnerCallback(i, k)

Init == InitWith(RunInputs)

InitOneImage == InitWith(OneImageInputs)

\* The invocations of up to MaxImages images.
Spec == Init /\ [][Next]_vars

\* The invocations of one image, under every combination of parameters.
SpecOneImage == InitOneImage /\ [][Next]_vars

\* The steps of the event loop: it runs the callback at the head of its
\* ready queue, main included, and asyncio.run shuts it down.
LoopStep ==
    \/ MainStart
    \/ MainWake
    \/ MainReturn
    \/ RunShutdown
    \/ \E i \in 1..MaxImages :
          \/ ImageStart(i)
          \/ ImageListed(i)
          \/ ImageGathered(i)
          \/ OuterCallback(i)
          \/ \E k \in 1..MaxVersions :
                \/ DeleteStart(i, k)
                \/ DeleteDone(i, k)
                \/ InnerCallback(i, k)

\* The registry answers a request.
Response ==
    \E i \in 1..MaxImages :
       \/ ListResponse(i)
       \/ \E k \in 1..MaxVersions : DeleteResponse(i, k)

\* The invocations of Spec, where the event loop goes on running what is
\* ready and every request gets its response in the end.
LiveSpec == Init /\ [][Next]_vars /\ WF_vars(LoopStep) /\ WF_vars(Response)

InitRepeated == InitWith(RepeatedInputs)

\* The invocations where an image name may come twice.
SpecRepeated == InitRepeated /\ [][Next]_vars

InitParse == InitWith(ParseInputs)

\* The invocations that parse every image_names.
SpecParse == InitParse /\ [][Next]_vars

----------------------------------------------------------------------------
(* What the properties speak of.                                           *)

\* validate_inputs has returned an Inputs instance.
Validated == inputs.kind = "Inputs"

\* Image task i has got its listing and has gone through it.
Listed(i) == img[i].pc = "gathering"

\* A version is stale: its selected timestamp parses and is an instant
\* strictly earlier than the cutoff.
Unparseable(version) == parse(version[inputs.timestamp_type]).kind = "None"

Stale(version) ==
    LET t == parse(version[inputs.timestamp_type])
        c == inputs.parsed_cutoff
    IN t.kind = "aware" /\ t.wall - t.tz < c.wall - c.tz

\* The ids of the stale versions of the listing of image task i.
StaleIds(i) ==
    { img[i].versions[p].id :
        p \in { q \in 1..Len(img[i].versions) : Stale(img[i].versions[q]) } }

\* The ids of the versions image task i's deletion tasks have sent a delete
\* request for.
RequestedIds(i) ==
    { del[i][k].req.id : k \in { q \in DOMAIN del[i] : del[i][q].req.op = "delete" } }

\* The registry has answered a request of image task i's branch with a
\* status that is not 2xx.
BranchFailed(i) ==
    \/ img[i].resp = "failed"
    \/ \E k \in DOMAIN del[i] : del[i][k].resp = "failed"

----------------------------------------------------------------------------
(* C1 *)

\* C1: for every image whose listing succeeds, delete requests are sent
\* for exactly the stale versions of the listing: never for a version whose
\* timestamp is the cutoff or later or does not parse, and, by the end of
\* the invocation, for every stale one.
C1_DeletesExactlyTheStale ==
    /\ \A i \in DOMAIN img : RequestedIds(i) \subseteq StaleIds(i)
    /\ loop = "closed" =>
         \A i \in DOMAIN img : Listed(i) => RequestedIds(i) = StaleIds(i)

----------------------------------------------------------------------------
(* C2 *)

\* C2: let-all-finish.  An image task gets the outcome of its gather only
\* when all its deletion tasks have ended, main gets the outcome of its
\* gather only when all image tasks have ended, and no task is cancelled.
C2_LetAllFinish ==
    /\ \A i \in DOMAIN img :
         img[i].pc = "gathering" /\ img[i].res \in {"ok", "exception"} =>
            \A k \in DOMAIN del[i] : del[i][k].res # "none"
    /\ mainPc = "closing" => \A i \in DOMAIN img : img[i].res # "none"
    /\ \A i \in DOMAIN img :
         /\ img[i].res # "cancelled"
         /\ \A k \in DOMAIN del[i] : del[i][k].res # "cancelled"

----------------------------------------------------------------------------
(* C3 *)

\* C3: when the invocation has ended, an image whose own requests the
\* registry has not failed has been listed and has had every stale version
\* deleted, whatever failed in the branches of the other images.
C3_SiblingsUnaffected ==
    loop = "closed" =>
       \A j \in DOMAIN img :
          (~BranchFailed(j) /\ \E i \in DOMAIN img : i # j /\ BranchFailed(i)) =>
             /\ Listed(j)
             /\ RequestedIds(j) = StaleIds(j)
             /\ \A k \in DOMAIN del[j] : del[j][k].res = "ok"

----------------------------------------------------------------------------
(* C4 *)

\* C4: the client is open before any image task exists, is closed at most
\* once, and when it is closed every image task and every deletion task
\* has ended: no request is in flight or still to be sent.
C4_ClosedAfterAllTasks ==
    /\ img # <<>> => client # "unopened"
    /\ nClosed <= 1
    /\ client = "closed" <=> nClosed = 1
    /\ (client = "closed" /\ loop = "running") =>
          \A i \in DOMAIN img :
             /\ img[i].res # "none"
             /\ \A k \in DOMAIN del[i] : del[i][k].res # "none"

----------------------------------------------------------------------------
(* C5 *)

\* The done-callback of image task i has run.
OuterCallbackRan(i) ==
    /\ img[i].res \in {"ok", "exception"}
    /\ loop = "running"
    /\ \A p \in 1..Len(ready) : ready[p] # Entry("outer_cb", i, 0)

\* C5: when the list request of an image has failed, the image task has no
\* deletion task and sends no delete request, it does not end well (it
\* raises, unless it is cancelled before it reads the response), the
\* exception reaches the gather of main, and main does not return well.
C5_FailedListingDeletesNothing ==
    \A i \in DOMAIN img :
       img[i].resp = "failed" =>
          /\ del[i] = <<>>
          /\ RequestedIds(i) = {}
          /\ img[i].res \in {"none", "exception", "cancelled"}
          /\ img[i].res = "cancelled" => mainExc # NoExc
          /\ OuterCallbackRan(i) => outer.state = "exception"
          /\ mainPc = "done" => mainExc # NoExc

\* A list request has failed, the task has raised, its sibling has had a
\* stale version deleted, and main has raised.
C5_Witness ==
    /\ loop = "closed"
    /\ mainExc = "RequestFailed"
    /\ \E i, j \in DOMAIN img :
          /\ img[i].resp = "failed" /\ img[i].res = "exception"
          /\ \E k \in DOMAIN del[j] : del[j][k].res = "ok"

----------------------------------------------------------------------------
(* C6 *)

\* The stale versions of a listing, in its order.
StaleOf(versions) == SelectSeq(versions, Stale)

\* The versions of a listing whose timestamp parses, in its order.
ParseableOf(versions) ==
    LET Parses(version) == ~Unparseable(version) IN SelectSeq(versions, Parses)

----------------------------------------------------------------------------
(* C7 *)

\* C7: once main is done, it has raised if the registry has failed any
\* list or delete request, and it has returned well only if every image
\* has been listed and every deletion task has sent its request and got a
\* 2xx response.
C7_AnyFailureFailsMain ==
    (mainPc = "done" /\ Validated) =>
       /\ (\E i \in DOMAIN img : BranchFailed(i)) => mainExc = "RequestFailed"
       /\ mainExc = NoExc =>
             \A i \in DOMAIN img :
                /\ img[i].req.op = "list" /\ img[i].resp = "ok" /\ img[i].res = "ok"
                /\ \A k \in DOMAIN del[i] :
                      /\ del[i][k].req.op = "delete"
                      /\ del[i][k].resp = "ok" /\ del[i][k].res = "ok"

\* Every list request has succeeded and one delete request has failed:
\* main has raised.
C7_Witness ==
    /\ mainPc = "done"
    /\ mainExc = "RequestFailed"
    /\ Len(img) = 2
    /\ \A i \in DOMAIN img : img[i].resp = "ok"
    /\ \E i \in DOMAIN img : \E k \in DOMAIN del[i] : del[i][k].resp = "failed"

----------------------------------------------------------------------------
(* C8 *)

\* The parameters do not pass validation: the cutoff does not resolve or
\* has no offset, the organization name is missing, or a type is unknown.
InvalidArgs ==
    \/ parse(args.cut_off).kind # "aware"
    \/ args.account_type = "org" /\ args.org_name = ""
    \/ args.account_type \notin {"org", "personal"}
    \/ args.timestamp_type \notin {"updated_at", "created_at"}

\* C8: in an invocation whose parameters do not pass validation the client
\* is never opened, no task is ever created and no request is ever sent:
\* main ends with the validation error.
C8_ValidationFailsFirst ==
    InvalidArgs =>
       /\ client = "unopened" /\ nClosed = 0
       /\ img = <<>> /\ del = <<>> /\ ready = <<>>
       /\ ~Validated
       /\ mainPc # "start" => (mainPc = "done" /\ mainExc # NoExc)

\* The last check of validation has failed, and the invocation is over.
C8_Witness ==
    /\ loop = "closed"
    /\ mainExc = "InvalidAccountType"
    /\ client = "unopened"

----------------------------------------------------------------------------
(* C9 *)

\* C9, as stated: an Inputs instance has an organization name if and only
\* if its account type is org; with account type org and no organization
\* name validation fails with the missing-org-name error; with account
\* type personal the organization name is dropped.
C9_OrgNameIffOrg_AsStated ==
    /\ Validated => (inputs.org_name # None <=> inputs.account_type = "org")
    /\ (args.account_type = "org" /\ args.org_name = "" /\ mainPc # "start") =>
          mainExc = "OrgNameRequired"
    /\ (Validated /\ args.account_type = "personal") => inputs.org_name = None

\* C9, amended: the missing-org-name error is the error of validation when
\* the cutoff resolves to an instant with an offset; otherwise validation
\* fails too, with the error of the cutoff.
C9_OrgNameIffOrg ==
    /\ Validated =>
          /\ inputs.org_name # None <=> inputs.account_type = "org"
          /\ inputs.account_type = "org" =>
                (inputs.org_name = args.org_name /\ inputs.org_name # "")
    /\ (args.account_type = "org" /\ args.org_name = "" /\ mainPc # "start") =>
          /\ ~Validated
          /\ mainExc = IF parse(args.cut_off).kind = "None" THEN "UnableToParse"
                       ELSE IF parse(args.cut_off).kind = "naive" THEN "TimezoneRequired"
                       ELSE "OrgNameRequired"
    /\ (Validated /\ args.account_type = "personal") => inputs.org_name = None

\* A personal configuration that was given an organization name, which it
\* does not hold.
C9_Witness ==
    /\ Validated
    /\ args.account_type = "personal" /\ args.org_name = "acme"
    /\ inputs.org_name = None

----------------------------------------------------------------------------
(* C10 *)

\* C10: a cutoff that resolves to an instant without an offset fails
\* validation with the missing-timezone error, whatever the other
\* parameters are, and the cutoff of every Inputs instance has an offset.
C10_TimezoneRequired ==
    /\ (parse(args.cut_off).kind = "naive" /\ mainPc # "start") =>
          (mainExc = "TimezoneRequired" /\ ~Validated)
    /\ Validated => inputs.parsed_cutoff.kind = "aware"

\* A cutoff without an offset, with an unknown account type, no
\* organization name and an unknown timestamp type, has been rejected.
C10_Witness ==
    /\ mainPc = "done"
    /\ parse(args.cut_off).kind = "naive"
    /\ args.account_type = "team" /\ args.org_name = ""
    /\ args.timestamp_type = "pushed_at"
    /\ mainExc = "TimezoneRequired"

----------------------------------------------------------------------------
(* C11 *)

\* The positions of the commas of a string preceded by 0 and followed by
\* its length plus one: segment p lies between the p-th and the next.
Cuts(s) ==
    LET commas == { q \in 1..Len(s) : s[q] = "," }
        marks == commas \cup {0, Len(s) + 1}
        Rank(m) == Cardinality({ q \in marks : q < m }) + 1
    IN [p \in 1..Cardinality(marks) |-> CHOOSE m \in marks : Rank(m) = p]

\* value is seg without the whitespace around it.
TrimmedOf(value, seg) ==
    /\ value # <<>> => (value[1] # " " /\ value[Len(value)] # " ")
    /\ \E l \in 0..Len(seg) :
          /\ l + Len(value) <= Len(seg)
          /\ SubSeq(seg, l + 1, l + Len(value)) = value
          /\ \A q \in 1..Len(seg) :
                (q <= l \/ q > l + Len(value)) => seg[q] = " "

\* urllib.parse.unquote_to_bytes: %XX is the byte XX, any other character
\* its own byte.
HexValue(h) == CHOOSE d \in 0..15 : hex_digit(d) = h

RECURSIVE unquote_to_bytes(_)
unquote_to_bytes(s) ==
    IF s = <<>> THEN <<>>
    ELSE IF Head(s) = "%" /\ Len(s) >= 3
         THEN <<16 * HexValue(s[2]) + HexValue(s[3])>>
              \o unquote_to_bytes(SubSeq(s, 4, Len(s)))
         ELSE encode_char(Head(s)) \o unquote_to_bytes(Tail(s))

\* The UTF-8 bytes of a string, written out character by character.
Utf8(s) ==
    LET Bytes(c) == IF c = "U+00E9" THEN <<195, 169>>
                    ELSE IF c = "a" THEN <<97>> ELSE IF c = " " THEN <<32>>
                    ELSE IF c = "%" THEN <<37>> ELSE IF c = "," THEN <<44>>
                    ELSE <<47>>
        RECURSIVE All(_)
        All(t) == IF t = <<>> THEN <<>> ELSE Bytes(Head(t)) \o All(Tail(t))
    IN All(s)

\* C11: once main has parsed image_names there is one ImageName per
\* comma-separated segment, in the order of the input; its value is the
\* segment without the whitespace around it; decoding `encoded` gives the
\* UTF-8 bytes of the value; and `encoded` holds nothing but letters and
\* %XX escapes: no "/" or other character is kept as safe.
C11_OneNamePerSegment ==
    mainPc # "start" =>
       LET s == args.image_names
           cuts == Cuts(s)
       IN /\ Len(names) = Len(cuts) - 1
          /\ \A p \in 1..Len(names) :
                /\ TrimmedOf(names[p].value, SubSeq(s, cuts[p] + 1, cuts[p + 1] - 1))
                /\ unquote_to_bytes(names[p].encoded) = Utf8(names[p].value)
                /\ \A q \in 1..Len(names[p].encoded) :
                      names[p].encoded[q] \in
                         {"a", "b", "c", "%"} \cup { hex_digit(d) : d \in 0..15 }
                /\ \A q \in 1..Len(names[p].encoded) :
                      names[p].encoded[q] = "%" =>
                         /\ q + 2 <= Len(names[p].encoded)
                         /\ names[p].encoded[q + 1] # "%"
                         /\ names[p].encoded[q + 2] # "%"

\* Two segments have been parsed: a path character with whitespace before
\* it, quoted, and after the comma a character outside ASCII, as the two
\* bytes of its UTF-8 form.
C11_Witness ==
    /\ mainPc = "done"
    /\ args.image_names = <<" ", "/", ",", "U+00E9">>
    /\ names = << [value |-> <<"/">>, encoded |-> <<"%", "2", "F">>],
                  [value |-> <<"U+00E9">>,
                   encoded |-> <<"%", "C", "3", "%", "A", "9">>] >>

----------------------------------------------------------------------------
(* C12 *)

\* C12: nothing is retried or paginated.  An image task sends one list
\* request, as its first step, and never another; the listing is the one
\* response to it; a version record of the listing has at most one deletion
\* task, which sends at most one delete request; and a task whose request
\* has failed has sent that one request only.  When the invocation ends,
\* every image task has sent exactly one list request.
C12_NoRetryNoPagination ==
    /\ \A i \in DOMAIN img :
          /\ img[i].nreq = IF img[i].pc = "created" THEN 0 ELSE 1
          /\ img[i].resp = "failed" => img[i].nreq = 1
          /\ Len(del[i]) <= Len(img[i].versions)
          /\ \A p \in 1..Len(img[i].versions) :
                Cardinality({ k \in DOMAIN del[i] :
                                 del[i][k].id = img[i].versions[p].id }) <= 1
          /\ \A k \in DOMAIN del[i] :
                /\ del[i][k].nreq = IF del[i][k].pc = "created" THEN 0 ELSE 1
                /\ del[i][k].resp = "failed" => del[i][k].nreq = 1
    /\ (loop = "closed" /\ Validated) =>
          \A i \in DOMAIN img : img[i].nreq = 1 /\ img[i].req.op = "list"

\* The invocation has ended after a delete request has failed and a list
\* request has failed: one request was sent for each.
C12_Witness ==
    /\ loop = "closed"
    /\ \E i, j \in DOMAIN img :
          /\ img[j].resp = "failed" /\ img[j].res = "exception" /\ img[j].nreq = 1
          /\ \E k \in DOMAIN del[i] :
                /\ del[i][k].resp = "failed" /\ del[i][k].res = "exception"
                /\ del[i][k].nreq = 1

----------------------------------------------------------------------------
(* C13 *)

\* C13: within an image the order is causal.  A deletion task of an image
\* exists, and a delete request of the image is sent, only after the list
\* request of the image has been answered well and the task has read the
\* answer; and an image task that has gone through its listing has ended
\* only after a deletion task was created for every stale version of it.
C13_CausalOrder ==
    \A i \in DOMAIN img :
       /\ (del[i] # <<>> \/ RequestedIds(i) # {}) =>
             /\ img[i].req.op = "list" /\ img[i].resp = "ok"
             /\ Listed(i)
       /\ (img[i].res \in {"ok", "exception"} /\ img[i].resp = "ok") =>
             /\ Len(del[i]) = Len(StaleOf(img[i].versions))
             /\ \A k \in DOMAIN del[i] : del[i][k].id = StaleOf(img[i].versions)[k].id

\* No order between images or between the deletions of an image: the
\* second image has ended, deletions and all, while the first has not, and
\* the first image's second deletion has ended while its first has not.
C13_Witness ==
    /\ Len(img) = 2
    /\ img[2].res = "ok" /\ del[2] # <<>>
    /\ img[1].res = "none"
    /\ Len(del[1]) = 2
    /\ del[1][2].res = "ok" /\ del[1][1].res = "none"

\* The orders of the launch are reachable as well: the first image has
\* ended while the second has not, and the second image's first deletion
\* has ended while its second has not.
C13_InOrder ==
    /\ Len(img) = 2
    /\ img[1].res = "ok" /\ del[1] # <<>>
    /\ img[2].res = "none"
    /\ Len(del[2]) = 2
    /\ del[2][1].res = "ok" /\ del[2][2].res = "none"

----------------------------------------------------------------------------
(* C14 *)

\* C14: the fan-out is eager at both levels.  When main awaits, it has
\* created one task per parsed image name; every image task has sent its
\* list request before any image task has ended, so that no listing waits
\* for another image.  When an image task awaits its deletions, it has
\* created one deletion task per stale version of its listing, and no
\* deletion task has taken its first step before all of them exist.
C14_EagerFanOut ==
    /\ mainPc \in {"gather", "closing"} =>
          /\ Len(img) = Len(names)
          /\ Len(names) = Len(Cuts(args.image_names)) - 1
    /\ (\E i \in DOMAIN img : img[i].res # "none") =>
          \A j \in DOMAIN img : img[j].pc # "created" /\ img[j].nreq = 1
    /\ \A i \in DOMAIN img :
          /\ Listed(i) => Len(del[i]) = Len(StaleOf(img[i].versions))
          /\ \A k \in DOMAIN del[i] :
                del[i][k].pc # "created" =>
                   /\ Len(del[i]) = Len(StaleOf(img[i].versions))
                   /\ \A q \in DOMAIN del[i] :
                         del[i][q].id = StaleOf(img[i].versions)[q].id

\* Both levels at work at once: the list request of the second image is
\* in flight, and so are the two delete requests of the first image.
C14_Witness ==
    /\ Len(img) = 2
    /\ img[2].pc = "listing" /\ img[2].resp = "none" /\ img[2].res = "none"
    /\ Len(del[1]) = 2
    /\ \A k \in 1..2 :
          /\ del[1][k].pc = "deleting"
          /\ del[1][k].resp = "none" /\ del[1][k].res = "none"

----------------------------------------------------------------------------
(* C15 *)

\* Every request sent so far in the invocation, list and delete.
Requests ==
    { img[i].req : i \in { j \in DOMAIN img : img[j].req.op # "none" } }
    \cup UNION { { del[i][k].req :
                     k \in { q \in DOMAIN del[i] : del[i][q].req.op # "none" } } :
                 i \in DOMAIN del }

\* C15: the account type of the invocation fixes the scope of every
\* request.  With account type org every list and delete request is the
\* org-scoped one and carries the organization name of the invocation;
\* with account type personal every one is the personal-scoped one and
\* carries no organization name; the requests of an invocation are all of
\* one scope.
C15_OneNamespace ==
    /\ args.account_type = "org" =>
          \A r \in Requests : r.scope = "org" /\ r.org = args.org_name
    /\ args.account_type = "personal" =>
          \A r \in Requests : r.scope = "user" /\ r.org = None
    /\ \A r1, r2 \in Requests : r1.scope = r2.scope /\ r1.org = r2.org
    /\ \A i \in DOMAIN img :
          /\ img[i].req.op \in {"none", "list"}
          /\ \A k \in DOMAIN del[i] : del[i][k].req.op \in {"none", "delete"}

\* An invocation for an organization has listed two images and deleted a
\* version of each: four requests, all org-scoped with its name.
C15_Witness ==
    /\ args.account_type = "org"
    /\ loop = "closed" /\ mainExc = NoExc
    /\ Len(img) = 2
    /\ \A i \in DOMAIN img :
          /\ img[i].req.scope = "org" /\ img[i].req.org = "acme"
          /\ del[i] # <<>>
          /\ \A k \in DOMAIN del[i] :
                del[i][k].req.scope = "org" /\ del[i][k].req.org = "acme"

\* An invocation for a personal account that was given an organization
\* name has listed an image and deleted a version of it under the user scope.
C15_Personal ==
    /\ args.account_type = "personal" /\ args.org_name = "acme"
    /\ loop = "closed" /\ mainExc = NoExc
    /\ \E i \in DOMAIN img :
          /\ img[i].req.scope = "user"
          /\ \E k \in DOMAIN del[i] : del[i][k].req.scope = "user"

----------------------------------------------------------------------------
(* C16 *)

\* The 'no more versions to delete' line of image task i.
NoMoreLine(i) == [msg |-> "No more versions to delete", i |-> i, id |-> 0]

\* C16: the 'no more versions to delete' line of an image is printed if
\* and only if the image task has gone through a listing that came back
\* well and found no stale version in it; the task has then no deletion
\* task and sends no delete request, and it has ended well.
C16_NoMoreVersions ==
    \A i \in DOMAIN img :
       /\ NoMoreLine(i) \in out <=>
             (Listed(i) /\ img[i].resp = "ok" /\ StaleOf(img[i].versions) = <<>>)
       /\ NoMoreLine(i) \in out =>
             /\ del[i] = <<>> /\ inner[i] = NoFuture
             /\ RequestedIds(i) = {}
             /\ img[i].res = "ok"
             /\ img[i].nreq = 1

\* The three ways to no stale version, each with its line printed and its
\* task ended well: an empty listing and, in the other image, a listing of
\* a fresh version and a version that was skipped.
C16_Witness ==
    /\ Len(img) = 2
    /\ \A i \in DOMAIN img : NoMoreLine(i) \in out /\ img[i].res = "ok"
    /\ \E i, j \in DOMAIN img :
          /\ img[i].versions = <<>>
          /\ Len(img[j].versions) = 2
          /\ \E p, q \in 1..2 :
                /\ Unparseable(img[j].versions[p])
                /\ ~Unparseable(img[j].versions[q]) /\ ~Stale(img[j].versions[q])
    /\ mainPc = "done" /\ mainExc = NoExc

----------------------------------------------------------------------------
(* C17 *)

\* The registry has answered a request with a status that is not 2xx.
SomeFailed == \E i \in DOMAIN img : BranchFailed(i)

\* Every image has been listed and every stale version of every listing
\* has had its delete request answered well and its task ended well.
AllDeleted ==
    /\ Len(img) = Len(names)
    /\ \A i \in DOMAIN img :
          /\ img[i].resp = "ok" /\ img[i].res = "ok"
          /\ RequestedIds(i) = StaleIds(i)
          /\ Len(del[i]) = Len(StaleOf(img[i].versions))
          /\ \A k \in DOMAIN del[i] : del[i][k].resp = "ok" /\ del[i][k].res = "ok"

\* The invocation has ended and main has returned without an exception.
TerminatedWell == loop = "closed" /\ mainPc = "done" /\ mainExc = NoExc

\* C17: an invocation whose parameters pass validation and whose requests
\* are all answered well ends in the end, main returning without an
\* exception; and as long as no request has been failed, the client is
\* closed only once every stale version of every image has had its delete
\* request answered well.
C17_FailureFreeCompletion ==
    /\ [](( ~SomeFailed /\ client = "closed") => AllDeleted)
    /\ [](( ~SomeFailed /\ mainPc = "done") => (mainExc = NoExc /\ AllDeleted))
    /\ <>(SomeFailed \/ (TerminatedWell /\ AllDeleted /\ nClosed = 1))

\* Two images, two stale versions in one listing and one in the other, no
\* failure: the invocation has ended well with the three versions deleted.
C17_Witness ==
    /\ TerminatedWell /\ AllDeleted /\ ~SomeFailed
    /\ Len(img) = 2
    /\ Len(del[1]) = 2 /\ Len(del[2]) = 1
    /\ client = "closed"

----------------------------------------------------------------------------
(* C18 *)

\* The deletion tasks, as <<i, k>>, that have sent the delete request of
\* version id `v` of the image named `value`.
DeleteRequestsOf(value, v) ==
    { t \in { <<i, k>> : i \in DOMAIN del, k \in 1..MaxVersions } :
         /\ t[2] \in DOMAIN del[t[1]]
         /\ names[t[1]].value = value
         /\ del[t[1]][t[2]].req.op = "delete"
         /\ del[t[1]][t[2]].req.id = v }

\* The parsed names are pairwise distinct.
DistinctNames == \A i, j \in DOMAIN names : i # j => names[i] # names[j]

\* C18: names are not deduplicated.  There is one image task per segment
\* of image_names, repeated names included, and each sends a list request
\* of its own; and when the parsed names are pairwise distinct (the ids of
\* a listing are), no version id of an image gets more than one delete
\* request.
C18_NoDeduplication ==
    /\ mainPc \in {"gather", "closing"} =>
          /\ Len(img) = Len(Cuts(args.image_names)) - 1
          /\ \A i \in DOMAIN img :
                img[i].pc # "created" =>
                   /\ img[i].nreq = 1
                   /\ img[i].req = list_package_versions(inputs, names[i])
    /\ DistinctNames =>
          \A i \in DOMAIN img : \A v \in { r.id : r \in VersionRecords } :
             Cardinality(DeleteRequestsOf(names[i].value, v)) <= 1

\* A name came twice: two tasks have listed the same image with the same
\* request, and a version id of it has got two delete requests.
C18_Witness ==
    /\ Len(names) = 2 /\ names[1] = names[2]
    /\ img[1].req = img[2].req /\ img[1].req.op = "list"
    /\ img[1].nreq = 1 /\ img[2].nreq = 1
    /\ \E v \in { r.id : r \in VersionRecords } :
          Cardinality(DeleteRequestsOf(names[1].value, v)) = 2

----------------------------------------------------------------------------
(* C19 *)

\* The checks of validation in their order, each with whether the
\* parameters of the invocation fail it and the error it raises.
Checks ==
    << [fails |-> parse(args.cut_off).kind = "None", exc |-> "UnableToParse"],
       [fails |-> parse(args.cut_off).kind = "naive", exc |-> "TimezoneRequired"],
       [fails |-> args.account_type = "org" /\ args.org_name = "",
        exc |-> "OrgNameRequired"],
       [fails |-> args.timestamp_type \notin {"updated_at", "created_at"},
        exc |-> "InvalidTimestampType"],
       [fails |-> args.account_type \notin {"org", "personal"},
        exc |-> "InvalidAccountType"] >>

Failing == { c \in DOMAIN Checks : Checks[c].fails }

\* C19: validation reports the first check that fails, in the order
\* unresolvable cutoff, cutoff without offset, missing organization name,
\* unknown timestamp type, unknown account type, and nothing of the later
\* ones; it returns an Inputs instance only when none fails, so never for
\* an account type other than 'org' and 'personal'.
C19_FirstFailingCheck ==
    mainPc # "start" =>
       /\ Failing # {} =>
             /\ ~Validated
             /\ mainExc = Checks[CHOOSE c \in Failing : \A d \in Failing : c <= d].exc
       /\ Failing = {} =>
             /\ Validated
             /\ mainExc \in {NoExc, "RequestFailed"}
       /\ args.account_type \notin {"org", "personal"} => ~Validated

\* The last two checks fail and no other: the error is the timestamp
\* type's.
C19_Witness ==
    /\ mainPc = "done"
    /\ Failing = {4, 5}
    /\ mainExc = "InvalidTimestampType"
    /\ ~Validated

====
